---- MODULE Spec2Model ----
(***************************************************************************)
(* The three workflow-step scripts of PyodideSemanticWorkflow              *)
(*   sum_mm.run, calculate_average.run, load_csvw_column.run               *)
(* as functions  Turtle document -> Turtle document  on RDF graphs.        *)
(*                                                                         *)
(* A graph is a set of triples <<s, p, o>>.  A term is a 4-tuple           *)
(* <<kind, name, a, b>>:                                                   *)
(*   "iri"   an IRI written in full in the document                        *)
(*   "rel"   a relative IRI reference "#name" as the scripts mint them     *)
(*           (URIRef(f"#sumResult_{uuid}"), "#averageResult_<hash>", ...)  *)
(*   "base"  the absolute IRI a Turtle parser makes of "#name" by          *)
(*           resolving it against the document base                        *)
(*   "bnode" a blank node, "num" a numeric literal a/b, "str" a string     *)
(*           literal, "none" Python's None.                                *)
(* The host holds the document `doc`; every invocation parses it, mutates  *)
(* the graph in place and serializes it back.                              *)
(***************************************************************************)
EXTENDS Integers, Sequences, FiniteSets, TLC

VARIABLES
  doc,           \* the Turtle document the host holds: [ok, triples]
  script,        \* the script of the workflow step
  activity_iri,  \* the activity IRI the host passes to the workflows
  runs,          \* invocations so far
  uid,           \* the next uuid4 / blank node identifier
  last,          \* what the latest invocation did
  prev           \* the outcome of the invocation before it

vars == <<doc, script, activity_iri, runs, uid, last, prev>>

(* ------------------------------ bounds -------------------------------- *)
MaxInputs == 2
MaxMembers == 2
MaxRows == 2
MaxRuns == 3
MaxLoads == 2

(* ------------------------------- terms -------------------------------- *)
None == <<"none", "", 0, 0>>
Iri(n) == <<"iri", n, 0, 0>>
IriN(n, i) == <<"iri", n, i, 0>>
Rel(n, k) == <<"rel", n, k, 0>>
BNode(k) == <<"bnode", "", k, 0>>
Num(a, b) == <<"num", "", a, b>>
Str(s) == <<"str", s, 0, 0>>

(* vocabulary: the predicates and classes the scripts read and write *)
RDF_type == "rdf:type"
RDF_value == "rdf:value"
RDFS_label == "rdfs:label"
PROV_Activity == Iri("prov:Activity")
PROV_Entity == Iri("prov:Entity")
PROV_Collection == Iri("prov:Collection")
PROV_used == "prov:used"
PROV_hadMember == "prov:hadMember"
PROV_wasGeneratedBy == "prov:wasGeneratedBy"
PROV_wasDerivedFrom == "prov:wasDerivedFrom"
QUDT_QuantityValue == Iri("qudt:QuantityValue")
QUDT_numericValue == "qudt:numericValue"
QUDT_unit == "qudt:unit"
UNIT_MilliM == Iri("unit:MilliM")
UNIT_M == Iri("unit:M")
OA_Annotation == Iri("oa:Annotation")
OA_TextualBody == Iri("oa:TextualBody")
OA_motivatedBy == "oa:motivatedBy"
OA_hasBody == "oa:hasBody"
OA_hasTarget == "oa:hasTarget"
EX_errorReporting == Iri("ex:errorReporting")
EX_errorCode == "ex:errorCode"
EX_valueCount == "ex:valueCount"
EX_calculationMethod == "ex:calculationMethod"
EX_minValue == "ex:minValue"
EX_maxValue == "ex:maxValue"
EX_sourceColumn == "ex:sourceColumn"
EX_columnTitle == "ex:columnTitle"
BFO_is_input_of == "bfo:is_input_of"
P_PLAN_correspondsToVariable == "p-plan:correspondsToVariable"

(* --------------------------- graph queries ---------------------------- *)
Subjects(g, p, o) == {t[1] : t \in {x \in g : x[2] = p /\ x[3] = o}}
Objects(g, s, p) == {t[3] : t \in {x \in g : x[1] = s /\ x[2] = p}}
SubjectsOf(g, p) == {t[1] : t \in {x \in g : x[2] = p}}

(* g.value(s, p): None when there is no object, any one of them otherwise *)
ValueChoices(g, s, p) == IF Objects(g, s, p) = {} THEN {None} ELSE Objects(g, s, p)

(* list(...) of a graph query: the store yields the matches in some order *)
Orders(S) == {f \in [1..Cardinality(S) -> S] : \A i, j \in 1..Cardinality(S) : f[i] = f[j] => i = j}

Range(f) == {f[i] : i \in DOMAIN f}

(* float(x) succeeds on a literal with a numeric lexical form only *)
IsNumeric(x) == x[1] = "num"

(* --------------------------- Turtle round trip ------------------------ *)
(* g.parse(data=..., format="turtle"): a syntax error raises, leaving in g *)
(* the statements read before it; otherwise every relative reference is   *)
(* resolved against the document base.                                     *)
Resolve(x) == IF x[1] = "rel" THEN <<"base", x[2], x[3], x[4]>> ELSE x

ResolveGraph(ts) == {<<Resolve(t[1]), t[2], Resolve(t[3])>> : t \in ts}

parse(d) == [ok |-> d.ok, g |-> ResolveGraph(d.triples)]

(* g.serialize(format="turtle"): every term is written as it is held *)
serialize(g) == [ok |-> TRUE, triples |-> g]

(* ------------------------- shared small helpers ----------------------- *)
Min(S) == CHOOSE x \in S : \A y \in S : x <= y
Max(S) == CHOOSE x \in S : \A y \in S : x >= y

RECURSIVE SeqSum(_)
SeqSum(s) == IF s = <<>> THEN 0 ELSE Head(s) + SeqSum(Tail(s))

RECURSIVE Gcd(_, _)
Gcd(a, b) == IF b = 0 THEN a ELSE Gcd(b, a % b)

(* one g.value(s, p) result for every s of S *)
Selections(g, S, p) ==
  {f \in [S -> UNION {ValueChoices(g, s, p) : s \in S}] : \A s \in S : f[s] \in ValueChoices(g, s, p)}

(* the human-readable message of an annotation, one per error class *)
Msg(code) == "message: " \o code

(* mutant: the annotation is not attributed to the activity *)
annotation_triples_unattributed(ann, body, activity, code) ==
  {<<ann, RDF_type, OA_Annotation>>,
   <<ann, OA_motivatedBy, EX_errorReporting>>,
   <<ann, OA_hasBody, body>>}
  \cup (IF activity # None THEN {<<ann, OA_hasTarget, activity>>} ELSE {})
  \cup {<<body, RDF_type, OA_TextualBody>>, <<body, RDF_value, Str(Msg(code))>>}
  \cup (IF code # "" THEN {<<body, EX_errorCode, Str(code)>>} ELSE {})

(* the triples _add_error writes for annotation ann with body node body *)
annotation_triples(ann, body, activity, code) ==
  {<<ann, RDF_type, OA_Annotation>>,
   <<ann, OA_motivatedBy, EX_errorReporting>>,
   <<ann, OA_hasBody, body>>}
  \cup (IF activity # None
        THEN {<<ann, OA_hasTarget, activity>>, <<ann, PROV_wasGeneratedBy, activity>>}
        ELSE {})
  \cup {<<body, RDF_type, OA_TextualBody>>, <<body, RDF_value, Str(Msg(code))>>}
  \cup (IF code # "" THEN {<<body, EX_errorCode, Str(code)>>} ELSE {})

(* what one invocation did: the graph it parsed, the triples it removed    *)
(* and added, and the values it computed on the way                        *)
Outcome(parsedOk, input, removed, written, code, result, ann, activity, inputs, hash, values, unit) ==
  [ran |-> TRUE, parsed |-> parsedOk, input |-> input,
   g |-> (input \ removed) \cup written,
   removed |-> removed, written |-> written, code |-> code, result |-> result,
   ann |-> ann, activity |-> activity, inputs |-> inputs, hash |-> hash,
   values |-> values, unit |-> unit]

NoRun ==
  [ran |-> FALSE, parsed |-> FALSE, input |-> {}, g |-> {}, removed |-> {}, written |-> {},
   code |-> "", result |-> None, ann |-> None, activity |-> None, inputs |-> <<>>,
   hash |-> "", values |-> <<>>, unit |-> None]

(* mutant: the graph the failed parse left is kept *)
fresh_graph_keeping_partial(partial) == partial

(* the graph the except-branch of the parse continues with: g = Graph() *)
fresh_graph(partial) == {}

(* ------------------------------ sum_mm.py ----------------------------- *)
(* _add_error: annotation IRI #errorAnn_<uuid4>, body a new blank node *)
sum_add_error(activity, code, u) ==
  annotation_triples(Rel("errorAnn", u), BNode(u), activity, code)

(* next(g.subjects(RDF.type, PROV.Activity), None) *)
sum_activity_choices(g) ==
  IF Subjects(g, RDF_type, PROV_Activity) = {} THEN {None} ELSE Subjects(g, RDF_type, PROV_Activity)

(* the subjects of bfo:is_input_of <activity> that are typed qudt:QuantityValue *)
sum_inputs(g, activity) ==
  {qv \in Subjects(g, BFO_is_input_of, activity) : <<qv, RDF_type, QUDT_QuantityValue>> \in g}

(* mutant: the values are not checked *)
read_error_unchecked(order, numOf) == ""

(* the error of the read loop: the first input, in enumeration order, whose *)
(* value is missing or not a number; "" when every value is read            *)
read_error(order, numOf) ==
  LET bad == {i \in 1..Len(order) : numOf[order[i]] = None \/ ~IsNumeric(numOf[order[i]])}
  IN IF bad = {} THEN ""
     ELSE IF numOf[order[Min(bad)]] = None THEN "MISSING_NUMERIC_VALUE" ELSE "NON_NUMERIC_VALUE"

(* mutant: an input without a unit counts as a unit of its own *)
units_of_counting_none(order, unitOf) == {unitOf[order[i]] : i \in 1..Len(order)}

(* units.add(unit) for every input whose g.value(qv, QUDT.unit) is not None *)
units_of(order, unitOf) == {unitOf[order[i]] : i \in 1..Len(order)} \ {None}

sum_error(input, activity, code, u) ==
  Outcome(TRUE, input, {}, sum_add_error(activity, code, u), code, None,
          Rel("errorAnn", u), activity, <<>>, "", <<>>, None)

(* mutant: the unit read is dropped and millimetre used throughout *)
sum_unit_iri_always_default(units) == UNIT_MilliM

(* the unit of the result: the single unit read, or millimetre *)
sum_unit_iri(units) == IF units # {} THEN CHOOSE x \in units : TRUE ELSE UNIT_MilliM

sum_success(input, activity, order, numOf, unitOf, u) ==
  LET values == [i \in 1..Len(order) |-> numOf[order[i]][3]]
      unit_iri == sum_unit_iri(units_of(order, unitOf))
      result_qv == Rel("sumResult", u)
  IN Outcome(TRUE, input, {},
             {<<result_qv, RDF_type, QUDT_QuantityValue>>,
              <<result_qv, QUDT_numericValue, Num(SeqSum(values), 1)>>,
              <<result_qv, QUDT_unit, unit_iri>>,
              <<result_qv, PROV_wasGeneratedBy, activity>>}
             \cup {<<result_qv, PROV_wasDerivedFrom, order[i]>> : i \in 1..Len(order)},
             "", result_qv, None, activity, order, "", values, unit_iri)

(* mutant: a single input is let through *)
sum_too_few_off_by_one(inputs) == Len(inputs) < 1

(* if len(inputs) < 2 *)
sum_too_few(inputs) == Len(inputs) < 2

(* run(graph_ttl), the graph side: act is the activity the store yields     *)
(* first, order the order in which it yields the inputs, numOf and unitOf   *)
(* the g.value results per input, u the uuid4 drawn                         *)
sum_run(d, act, order, numOf, unitOf, u) ==
  LET p == parse(d) IN
  IF ~p.ok
  THEN Outcome(FALSE, fresh_graph(p.g), {}, sum_add_error(None, "PARSE_ERROR", u), "PARSE_ERROR",
               None, Rel("errorAnn", u), None, <<>>, "", <<>>, None)
  ELSE IF act = None THEN sum_error(p.g, None, "NO_ACTIVITY", u)
  ELSE IF sum_too_few(order) THEN sum_error(p.g, act, "INPUT_TOO_FEW", u)
  ELSE IF read_error(order, numOf) # "" THEN sum_error(p.g, act, read_error(order, numOf), u)
  ELSE IF Cardinality(units_of(order, unitOf)) > 1 THEN sum_error(p.g, act, "UNIT_MISMATCH", u)
  ELSE sum_success(p.g, act, order, numOf, unitOf, u)


(* ---------------- workflows: the deterministic result IRI ------------- *)
(* str(iri) of the IRIs the host's documents use: name and index *)
Digit(i) == <<"0", "1", "2", "3", "4", "5", "6", "7", "8", "9">>[i + 1]
Text(x) == x[2] \o Digit(x[3])

(* the order of Python's string comparison on those texts *)
NameRank(n) == CASE n = "act" -> 1 [] n = "c" -> 2 [] n = "in" -> 3 [] n = "m" -> 4 [] OTHER -> 5
TextLess(x, y) == IF x[2] = y[2] THEN x[3] < y[3] ELSE NameRank(x[2]) < NameRank(y[2])

RECURSIVE Insert(_, _)
Insert(x, s) ==
  IF s = <<>> THEN <<x>>
  ELSE IF TextLess(x, Head(s)) THEN <<x>> \o s
  ELSE <<Head(s)>> \o Insert(x, Tail(s))

(* mutant: the inputs are left in the order given *)
sorted_as_given(s) == s

RECURSIVE sorted(_)
sorted(s) == IF s = <<>> THEN <<>> ELSE Insert(Head(s), sorted(Tail(s)))

RECURSIVE Join(_)
Join(s) == IF s = <<>> THEN "" ELSE Text(Head(s)) \o Join(Tail(s))

(* create_execution_hash: sha256 of the activity IRI followed by the sorted *)
(* input IRIs; the digest is identified with the string it is taken of      *)
create_execution_hash(act, input_iris) == Text(act) \o Join(sorted(input_iris))

(* create_deterministic_iri: URIRef(f"#{prefix}_{execution_hash}") *)
create_deterministic_iri(prefix, execution_hash) == Rel(prefix \o "_" \o execution_hash, 0)

(* mutant: the links from the activity are removed as well *)
cleanup_previous_result_and_usage(g, result_iri) ==
  {t \in g : t[1] = result_iri \/ t[3] = result_iri \/ t[2] \in {PROV_used, BFO_is_input_of}}

(* cleanup_previous_result: the triples with result_iri as subject or object *)
cleanup_previous_result(g, result_iri) == {t \in g : t[1] = result_iri \/ t[3] = result_iri}

(* _add_error of the workflows: annotation IRI #errorAnn_<execution_hash> *)
(* mutant: the body is a named node *)
workflow_add_error_named_body(activity, code, execution_hash, u) ==
  annotation_triples(create_deterministic_iri("errorAnn", execution_hash),
                     create_deterministic_iri("errorBody", execution_hash), activity, code)

workflow_add_error(activity, code, execution_hash, u) ==
  annotation_triples(create_deterministic_iri("errorAnn", execution_hash), BNode(u), activity, code)

workflow_error(input, activity, code, inputs, execution_hash, u) ==
  Outcome(TRUE, input, {}, workflow_add_error(activity, code, execution_hash, u), code, None,
          create_deterministic_iri("errorAnn", execution_hash), activity, inputs, execution_hash,
          <<>>, None)

workflow_parse_error(partial, u) ==
  Outcome(FALSE, fresh_graph(partial), {}, workflow_add_error(None, "PARSE_ERROR", "unknown", u),
          "PARSE_ERROR", None, create_deterministic_iri("errorAnn", "unknown"), None, <<>>,
          "unknown", <<>>, None)

(* ------------------------ calculate_average.py ------------------------ *)
StrN(s, n) == <<"str", s, n, 0>>

(* a/b in lowest terms *)
Rat(a, b) == Num(a \div Gcd(a, b), b \div Gcd(a, b))

(* mutant: any prov:Collection the activity used qualifies *)
avg_inputs_any_collection(g, activity) ==
  {e \in Objects(g, activity, PROV_used) : <<e, RDF_type, PROV_Collection>> \in g}

(* the entities the activity used that are prov:Collections bound to a variable *)
avg_inputs(g, activity) ==
  {e \in Objects(g, activity, PROV_used) :
     /\ <<e, RDF_type, PROV_Collection>> \in g
     /\ \E t \in g : t[1] = e /\ t[2] = P_PLAN_correspondsToVariable}

(* mutant: rdf:value is read first *)
avg_value_choices_rdf_first(g, member) ==
  IF Objects(g, member, RDF_value) # {} THEN Objects(g, member, RDF_value)
  ELSE ValueChoices(g, member, QUDT_numericValue)

(* g.value(member, QUDT.numericValue), and g.value(member, RDF.value) if None *)
avg_value_choices(g, member) ==
  IF Objects(g, member, QUDT_numericValue) # {} THEN Objects(g, member, QUDT_numericValue)
  ELSE ValueChoices(g, member, RDF_value)

avg_value_selections(g, S) ==
  {f \in [S -> UNION {avg_value_choices(g, m) : m \in S}] : \A m \in S : f[m] \in avg_value_choices(g, m)}

avg_success(input, activity, inputs, execution_hash, members, valOf, unit_iri) ==
  LET values == [i \in 1..Len(members) |-> valOf[members[i]][3]]
      vs == Range(values)
      collection == inputs[1]
      result_qv == create_deterministic_iri("averageResult", execution_hash)
  IN Outcome(TRUE, input, cleanup_previous_result(input, result_qv),
             {<<result_qv, RDF_type, QUDT_QuantityValue>>,
              <<result_qv, RDF_type, PROV_Entity>>,
              <<result_qv, QUDT_numericValue, Rat(SeqSum(values), Len(values))>>,
              <<result_qv, PROV_wasGeneratedBy, activity>>,
              <<result_qv, PROV_wasDerivedFrom, collection>>,
              <<result_qv, RDFS_label, StrN("Average of n values", Len(values))>>,
              <<result_qv, EX_valueCount, Num(Len(values), 1)>>,
              <<result_qv, EX_calculationMethod, Str("arithmetic mean")>>,
              <<result_qv, EX_minValue, Num(Min(vs), 1)>>,
              <<result_qv, EX_maxValue, Num(Max(vs), 1)>>}
             \cup (IF unit_iri # None THEN {<<result_qv, QUDT_unit, unit_iri>>} ELSE {}),
             "", result_qv, None, activity, inputs, execution_hash, values, unit_iri)

(* run(input_turtle, activity_iri), the graph side: inputs is the order in  *)
(* which the store yields the qualifying collections, members the order of  *)
(* the members of inputs[0], valOf and unitOf the g.value results per       *)
(* member, collUnit that of the collection's unit, u the blank node drawn   *)
avg_run(d, activity, inputs, members, valOf, unitOf, collUnit, u) ==
  LET p == parse(d)
      execution_hash == create_execution_hash(activity, inputs)
      units == units_of(members, unitOf)
  IN
  IF ~p.ok THEN workflow_parse_error(p.g, u)
  ELSE IF Len(inputs) < 1
    THEN workflow_error(p.g, activity, "INPUT_TOO_FEW", inputs, execution_hash, u)
  ELSE IF Len(members) = 0
    THEN workflow_error(p.g, activity, "EMPTY_COLLECTION", inputs, execution_hash, u)
  ELSE IF read_error(members, valOf) # ""
    THEN workflow_error(p.g, activity, read_error(members, valOf), inputs, execution_hash, u)
  ELSE IF Cardinality(units) > 1
    THEN workflow_error(p.g, activity, "UNIT_MISMATCH", inputs, execution_hash, u)
  ELSE avg_success(p.g, activity, inputs, execution_hash, members, valOf,
                   IF units # {} THEN CHOOSE x \in units : TRUE ELSE collUnit)


(* ------------------------ load_csvw_column.py ------------------------- *)
(* str(x) of what g.value returned: str(None) is the text "None" *)
py_str(x) == IF x = None THEN "None" ELSE x[2]

(* "word" in var_label.lower(), for the labels the host's plans use *)
label_contains(label, word) ==
  CASE word = "metadata" -> label \in {"Metadata URI"}
    [] word = "uri" -> label \in {"Metadata URI", "Column URI"}
    [] word = "column" -> label \in {"Column Name", "Column URI"}
    [] OTHER -> FALSE

(* var_label = str(g.value(var, RDFS.label)) if var else "" *)
var_label(var, label) == IF var # None THEN py_str(label) ELSE ""

(* the for-loop over the inputs: a later input overwrites an earlier one *)
RECURSIVE csv_identify(_, _, _, _)
csv_identify(inputs, labelOf, valueOf, acc) ==
  IF inputs = <<>> THEN acc
  ELSE LET inp == Head(inputs)
           lbl == labelOf[inp]
           nxt == IF label_contains(lbl, "metadata") \/ label_contains(lbl, "uri")
                    THEN [acc EXCEPT !.metadata_uri = py_str(valueOf[inp])]
                  ELSE IF label_contains(lbl, "column")
                    THEN [acc EXCEPT !.column_name = py_str(valueOf[inp])]
                  ELSE acc
       IN csv_identify(Tail(inputs), labelOf, valueOf, nxt)

(* load_column_from_csvw as the network lets it end: an exception, or the   *)
(* column's values (a number where float() parses the field, the field's    *)
(* text otherwise), the mapped unit and the title.  requests.get raises on  *)
(* a text that is no URL.                                                   *)
MetaUrl == "http://host/meta.json"
RowKinds == {"num", "text"}
RowSeqs == UNION {[1..n -> RowKinds] : n \in 0..MaxRows}
FetchFailed == [ok |-> FALSE, rows |-> <<>>, unit_uri |-> None, column_title |-> ""]
load_column_from_csvw(metadata_uri, column_name) ==
  {FetchFailed} \cup
  (IF metadata_uri # MetaUrl THEN {}
   ELSE [ok : {TRUE}, rows : RowSeqs, unit_uri : {None, UNIT_MilliM}, column_title : {"Length"}])

(* the value of data row idx (0-based): row idx holds the number idx + 1 or a text *)
csv_value(kind, idx) == IF kind = "num" THEN Num(idx + 1, 1) ELSE Str("abc")

value_iri(idx, execution_hash) == create_deterministic_iri("value" \o Digit(idx), execution_hash)

(* mutant: every number becomes a quantity value, with or without a unit *)
csv_member_triples_any_number(idx, kind, unit_uri, execution_hash) ==
  IF kind = "num"
  THEN {<<value_iri(idx, execution_hash), RDF_type, QUDT_QuantityValue>>,
        <<value_iri(idx, execution_hash), RDF_type, PROV_Entity>>,
        <<value_iri(idx, execution_hash), QUDT_numericValue, csv_value(kind, idx)>>}
       \cup (IF unit_uri # None THEN {<<value_iri(idx, execution_hash), QUDT_unit, unit_uri>>} ELSE {})
  ELSE {<<value_iri(idx, execution_hash), RDF_type, PROV_Entity>>,
        <<value_iri(idx, execution_hash), RDF_value, csv_value(kind, idx)>>}

csv_member_triples(idx, kind, unit_uri, execution_hash) ==
  IF kind = "num" /\ unit_uri # None
  THEN {<<value_iri(idx, execution_hash), RDF_type, QUDT_QuantityValue>>,
        <<value_iri(idx, execution_hash), RDF_type, PROV_Entity>>,
        <<value_iri(idx, execution_hash), QUDT_numericValue, csv_value(kind, idx)>>,
        <<value_iri(idx, execution_hash), QUDT_unit, unit_uri>>}
  ELSE {<<value_iri(idx, execution_hash), RDF_type, PROV_Entity>>,
        <<value_iri(idx, execution_hash), RDF_value, csv_value(kind, idx)>>}

csv_success(input, activity, inputs, execution_hash, column_name, loaded) ==
  LET result_collection == create_deterministic_iri("columnData", execution_hash)
      n == Len(loaded.rows)
  IN Outcome(TRUE, input, cleanup_previous_result(input, result_collection),
             {<<result_collection, RDF_type, PROV_Entity>>,
              <<result_collection, RDF_type, PROV_Collection>>,
              <<result_collection, RDFS_label, Str("Column data: " \o loaded.column_title)>>,
              <<result_collection, PROV_wasGeneratedBy, activity>>,
              <<result_collection, EX_sourceColumn, Str(column_name)>>,
              <<result_collection, EX_columnTitle, Str(loaded.column_title)>>,
              <<result_collection, EX_valueCount, Num(n, 1)>>}
             \cup {<<result_collection, PROV_wasDerivedFrom, inputs[i]>> : i \in 1..Len(inputs)}
             \cup UNION {csv_member_triples(i - 1, loaded.rows[i], loaded.unit_uri, execution_hash) :
                           i \in 1..n}
             \cup {<<result_collection, PROV_hadMember, value_iri(i - 1, execution_hash)>> : i \in 1..n}
             \cup (IF loaded.unit_uri # None
                     THEN {<<result_collection, QUDT_unit, loaded.unit_uri>>} ELSE {}),
             "", result_collection, None, activity, inputs, execution_hash,
             [i \in 1..n |-> csv_value(loaded.rows[i], i - 1)], loaded.unit_uri)

(* run(input_turtle, activity_iri), the graph side: inputs is the order in  *)
(* which the store yields the subjects of bfo:is_input_of, labelOf the      *)
(* var_label and valueOf the g.value(inp, RDF.value) per input, loaded the  *)
(* end of load_column_from_csvw, u the blank node drawn                     *)
csv_run(d, activity, inputs, labelOf, valueOf, loaded, u) ==
  LET p == parse(d)
      execution_hash == create_execution_hash(activity, inputs)
      found == csv_identify(inputs, labelOf, valueOf, [metadata_uri |-> "", column_name |-> ""])
  IN
  IF ~p.ok THEN workflow_parse_error(p.g, u)
  ELSE IF Len(inputs) < 2
    THEN workflow_error(p.g, activity, "INPUT_TOO_FEW", inputs, execution_hash, u)
  ELSE IF found.metadata_uri = "" \/ found.column_name = ""
    THEN workflow_error(p.g, activity, "MISSING_INPUT", inputs, execution_hash, u)
  ELSE IF ~loaded.ok
    THEN workflow_error(p.g, activity, "CSVW_LOAD_ERROR", inputs, execution_hash, u)
  ELSE csv_success(p.g, activity, inputs, execution_hash, found.column_name, loaded)


(* ----------------------- the documents of the host -------------------- *)
(* The host's graphs follow the data model: an entity carries at most one  *)
(* numeric literal and at most one unit.  Activity act1 is the step that   *)
(* is executed; act2 is another step of the same workflow graph.           *)
Activity(i) == IriN("act", i)
Qv(i) == IriN("q", i)

ActivityTriples(n) == {<<Activity(i), RDF_type, PROV_Activity>> : i \in 1..n}

ValueKinds == {"num", "none", "bad"}
UnitChoices == {None, UNIT_MilliM, UNIT_M}

ValueTriples(s, p, kind, v) ==
  IF kind = "num" THEN {<<s, p, Num(v, 1)>>}
  ELSE IF kind = "bad" THEN {<<s, p, Str("abc")>>}
  ELSE {}

UnitTriples(s, unit) == IF unit = None THEN {} ELSE {<<s, QUDT_unit, unit>>}

SumInputOptions ==
  {[present |-> FALSE, typed |-> FALSE, val |-> "none", unit |-> None]}
  \cup [present : {TRUE}, typed : BOOLEAN, val : ValueKinds, unit : UnitChoices]

(* input q_i carries the value i + 1 *)
SumInputTriples(i, o) ==
  IF ~o.present THEN {}
  ELSE {<<Qv(i), BFO_is_input_of, Activity(1)>>}
       \cup (IF o.typed THEN {<<Qv(i), RDF_type, QUDT_QuantityValue>>} ELSE {})
       \cup ValueTriples(Qv(i), QUDT_numericValue, o.val, i + 1)
       \cup UnitTriples(Qv(i), o.unit)

SumDocs ==
  {[ok |-> TRUE,
    triples |-> ActivityTriples(n) \cup UNION {SumInputTriples(i, f[i]) : i \in 1..MaxInputs}] :
     n \in 0..2, f \in [1..MaxInputs -> SumInputOptions]}
  \cup {[ok |-> FALSE, triples |-> ActivityTriples(n)] : n \in 0..1}

Collection(i) == IriN("c", i)
Member(i) == IriN("m", i)
Input(i) == IriN("in", i)
Variable(i) == IriN("var", i)

AvgMemberOptions ==
  {[present |-> FALSE, num |-> "none", rdfval |-> "none", unit |-> None]}
  \cup [present : {TRUE}, num : ValueKinds, rdfval : {"num", "none"}, unit : UnitChoices]

(* member m_i carries qudt:numericValue i + 1 and rdf:value i + 5 *)
AvgMemberTriples(c, i, o) ==
  IF ~o.present THEN {}
  ELSE {<<c, PROV_hadMember, Member(i)>>}
       \cup ValueTriples(Member(i), QUDT_numericValue, o.num, i + 1)
       \cup ValueTriples(Member(i), RDF_value, o.rdfval, i + 5)
       \cup UnitTriples(Member(i), o.unit)

AvgCollectionOptions == [typed : BOOLEAN, var : BOOLEAN, unit : {None, UNIT_MilliM}]

AvgCollectionTriples(o, f) ==
  {<<Activity(1), PROV_used, Collection(1)>>}
  \cup (IF o.typed THEN {<<Collection(1), RDF_type, PROV_Collection>>} ELSE {})
  \cup (IF o.var THEN {<<Collection(1), P_PLAN_correspondsToVariable, Variable(1)>>} ELSE {})
  \cup UnitTriples(Collection(1), o.unit)
  \cup UNION {AvgMemberTriples(Collection(1), i, f[i]) : i \in 1..MaxMembers}

(* a second collection of the same activity: absent, empty, or one member of value 7 *)
AvgSecondTriples(k) ==
  IF k = "absent" THEN {}
  ELSE {<<Activity(1), PROV_used, Collection(2)>>,
        <<Collection(2), RDF_type, PROV_Collection>>,
        <<Collection(2), P_PLAN_correspondsToVariable, Variable(2)>>}
       \cup (IF k = "one"
             THEN {<<Collection(2), PROV_hadMember, Member(0)>>,
                   <<Member(0), QUDT_numericValue, Num(7, 1)>>}
             ELSE {})

AvgDocs ==
  {[ok |-> TRUE, triples |-> ActivityTriples(1) \cup AvgSecondTriples(k)] :
     k \in {"absent", "empty", "one"}}
  \cup {[ok |-> TRUE,
         triples |-> ActivityTriples(1) \cup AvgCollectionTriples(o, f) \cup AvgSecondTriples(k)] :
          o \in AvgCollectionOptions, f \in [1..MaxMembers -> AvgMemberOptions],
          k \in {"absent", "empty", "one"}}
  \cup {[ok |-> FALSE, triples |-> ActivityTriples(n)] : n \in 0..1}

CsvLabels == {"", "None", "Metadata URI", "Column Name", "Column URI", "Step"}

CsvInputOptions ==
  {[present |-> FALSE, label |-> "", value |-> "none"]}
  \cup [present : {TRUE}, label : CsvLabels, value : {"none", "url", "name"}]

(* label "": no plan variable; "None": a variable without rdfs:label *)
CsvInputTriples(i, o) ==
  IF ~o.present THEN {}
  ELSE {<<Input(i), BFO_is_input_of, Activity(1)>>}
       \cup (IF o.label # "" THEN {<<Input(i), P_PLAN_correspondsToVariable, Variable(i)>>} ELSE {})
       \cup (IF o.label \notin {"", "None"} THEN {<<Variable(i), RDFS_label, Str(o.label)>>} ELSE {})
       \cup (IF o.value = "url" THEN {<<Input(i), RDF_value, Str(MetaUrl)>>}
             ELSE IF o.value = "name" THEN {<<Input(i), RDF_value, Str("length")>>}
             ELSE {})

CsvDocs ==
  {[ok |-> TRUE,
    triples |-> ActivityTriples(1) \cup UNION {CsvInputTriples(i, f[i]) : i \in 1..MaxInputs}] :
     f \in [1..MaxInputs -> CsvInputOptions]}
  \cup {[ok |-> FALSE, triples |-> ActivityTriples(n)] : n \in 0..1}

Docs(sc) ==
  CASE sc = "sum" -> SumDocs
    [] sc = "average" -> AvgDocs
    [] sc = "load_csvw_column" -> CsvDocs

Scripts == {"sum", "average", "load_csvw_column"}

(* ------------------------------ behaviour ----------------------------- *)
Summary(o) ==
  [ran |-> o.ran, parsed |-> o.parsed, code |-> o.code, result |-> o.result,
   hash |-> o.hash, inputs |-> o.inputs]

InitOf(S) ==
  /\ script \in S
  /\ doc \in Docs(script)
  /\ activity_iri = Activity(1)
  /\ runs = 0
  /\ uid = 0
  /\ last = NoRun
  /\ prev = Summary(NoRun)

(* the host takes the returned document as the graph of the next step *)
Finish(o) ==
  /\ doc' = serialize(o.g)
  /\ last' = o
  /\ prev' = Summary(last)
  /\ runs' = runs + 1
  /\ uid' = uid + 1
  /\ UNCHANGED <<script, activity_iri>>

RunSum ==
  /\ script = "sum"
  /\ runs < MaxRuns
  /\ \E act \in sum_activity_choices(parse(doc).g) :
       \E order \in Orders(sum_inputs(parse(doc).g, act)) :
         \E numOf \in Selections(parse(doc).g, Range(order), QUDT_numericValue) :
           \E unitOf \in Selections(parse(doc).g, Range(order), QUDT_unit) :
             Finish(sum_run(doc, act, order, numOf, unitOf, uid))

RunAverage ==
  /\ script = "average"
  /\ runs < MaxRuns
  /\ \E inputs \in Orders(avg_inputs(parse(doc).g, activity_iri)) :
       \E members \in (IF inputs = <<>> THEN {<<>>}
                        ELSE Orders(Objects(parse(doc).g, inputs[1], PROV_hadMember))) :
         \E valOf \in avg_value_selections(parse(doc).g, Range(members)) :
           \E unitOf \in Selections(parse(doc).g, Range(members), QUDT_unit) :
             \E collUnit \in (IF inputs = <<>> THEN {None}
                               ELSE ValueChoices(parse(doc).g, inputs[1], QUDT_unit)) :
               Finish(avg_run(doc, activity_iri, inputs, members, valOf, unitOf, collUnit, uid))

RunLoadColumn ==
  /\ script = "load_csvw_column"
  /\ runs < MaxLoads
  /\ \E inputs \in Orders(Subjects(parse(doc).g, BFO_is_input_of, activity_iri)) :
       \E varOf \in Selections(parse(doc).g, Range(inputs), P_PLAN_correspondsToVariable) :
         \E lab \in Selections(parse(doc).g, Range(varOf), RDFS_label) :
           \E valueOf \in Selections(parse(doc).g, Range(inputs), RDF_value) :
             LET labelOf == [inp \in Range(inputs) |-> var_label(varOf[inp], lab[varOf[inp]])]
                 found == csv_identify(inputs, labelOf, valueOf,
                                       [metadata_uri |-> "", column_name |-> ""])
             IN \E loaded \in load_column_from_csvw(found.metadata_uri, found.column_name) :
                  Finish(csv_run(doc, activity_iri, inputs, labelOf, valueOf, loaded, uid))

(* every script, each on the documents of its own workflow step *)
Init == InitOf(Scripts)
Next == RunSum \/ RunAverage \/ RunLoadColumn
Spec == Init /\ [][Next]_vars

(* the sum step alone *)
InitSum == InitOf({"sum"})
NextSum == RunSum
SpecSum == InitSum /\ [][NextSum]_vars

(* the average step alone *)
(* the caller, between two calls of the average script, parses the output,  *)
(* gives a member a numeric qudt:numericValue or takes its                  *)
(* qudt:numericValue away, and supplies the edited graph to the next call   *)
EditGraph ==
  /\ script = "average"
  /\ last.ran /\ doc = serialize(last.g)
  /\ runs < MaxRuns
  /\ \E m \in {t[3] : t \in {x \in parse(doc).g : x[2] = PROV_hadMember}} :
       \E kind \in {"num", "none"} :
         /\ doc' = serialize({t \in parse(doc).g : ~(t[1] = m /\ t[2] = QUDT_numericValue)}
                               \cup ValueTriples(m, QUDT_numericValue, kind, m[3] + 1))
         /\ doc' # doc
  /\ UNCHANGED <<script, activity_iri, runs, uid, last, prev>>

(* the calls start on a graph whose activity uses the one collection c1 *)
InitEdited ==
  /\ InitOf({"average"})
  /\ <<Activity(1), PROV_used, Collection(2)>> \notin doc.triples
NextEdited == RunAverage \/ EditGraph
SpecEdited == InitEdited /\ [][NextEdited]_vars

InitLoad == InitOf({"load_csvw_column"})
NextLoad == RunLoadColumn
SpecLoad == InitLoad /\ [][NextLoad]_vars

InitAverage == InitOf({"average"})
NextAverage == RunAverage
SpecAverage == InitAverage /\ [][NextAverage]_vars

(* ============================ properties ============================== *)
(* the graph a reader of the returned document gets, as the test does with *)
(* Graph().parse(data=result_ttl, format="turtle")                         *)
OutGraph == ResolveGraph(doc.triples)

(* the triples the latest invocation added, as that reader sees them *)
Written == ResolveGraph(last.written)

(* the annotation of the latest invocation carries error code c *)
Reports(c) ==
  \E a \in Subjects(Written, RDF_type, OA_Annotation) :
    \E b \in Objects(OutGraph, a, OA_hasBody) : <<b, EX_errorCode, Str(c)>> \in OutGraph

(* the qudt:QuantityValues of the output that the input did not hold *)
NewQuantityValues ==
  Subjects(OutGraph, RDF_type, QUDT_QuantityValue) \ Subjects(last.input, RDF_type, QUDT_QuantityValue)

TheValue(g, q) == (CHOOSE o \in Objects(g, q, QUDT_numericValue) : TRUE)[3]

RECURSIVE Total(_, _)
Total(g, S) ==
  IF S = {} THEN 0
  ELSE LET q == CHOOSE x \in S : TRUE IN TheValue(g, q) + Total(g, S \ {q})

AllNumeric(g, S) ==
  \A q \in S : Objects(g, q, QUDT_numericValue) # {}
               /\ \A o \in Objects(g, q, QUDT_numericValue) : IsNumeric(o)

(* the units the entities of S carry *)
UnitsCarried(g, S) == UNION {Objects(g, q, QUDT_unit) : q \in S}

(* activity a has two or more inputs, all numeric, all with the one unit un *)
SumReady(g, a, un) ==
  /\ Cardinality(sum_inputs(g, a)) >= 2
  /\ AllNumeric(g, sum_inputs(g, a))
  /\ \A q \in sum_inputs(g, a) : Objects(g, q, QUDT_unit) = {un}

SumDelivered(g, a, un) ==
  /\ Cardinality(NewQuantityValues) = 1
  /\ \A r \in NewQuantityValues :
       /\ Objects(OutGraph, r, QUDT_numericValue) = {Num(Total(g, sum_inputs(g, a)), 1)}
       /\ Objects(OutGraph, r, QUDT_unit) = {un}

(* C1 as stated: whenever the parsed graph has an activity with two or more *)
(* numeric inputs of one unit, the output holds exactly one new             *)
(* QuantityValue, whose value is their sum and whose unit is theirs.        *)
C1_AnyActivity ==
  (script = "sum" /\ last.ran /\ last.parsed) =>
    \A a \in Subjects(last.input, RDF_type, PROV_Activity) :
      \A un \in UnitsCarried(last.input, sum_inputs(last.input, a)) :
        SumReady(last.input, a, un) => SumDelivered(last.input, a, un)

(* C1 amended: the same, for the activity the script selects (the first     *)
(* prov:Activity the store yields; the only one when there is just one).    *)
C1_SelectedActivity ==
  (script = "sum" /\ last.ran /\ last.parsed /\ last.activity # None) =>
    \A un \in UnitsCarried(last.input, sum_inputs(last.input, last.activity)) :
      SumReady(last.input, last.activity, un) => SumDelivered(last.input, last.activity, un)

(* C1 witness: inputs 2 mm and 3 mm have been summed to 5 with unit:MilliM *)
C1_Witness ==
  /\ script = "sum" /\ last.ran /\ last.activity = Activity(1)
  /\ SumReady(last.input, Activity(1), UNIT_MilliM)
  /\ <<Resolve(last.result), QUDT_numericValue, Num(5, 1)>> \in OutGraph
  /\ <<Resolve(last.result), QUDT_unit, UNIT_MilliM>> \in OutGraph

(* the qualifying inputs of the activity the sum script selected *)
SumInputs == sum_inputs(last.input, last.activity)

SumRan == script = "sum" /\ last.ran /\ last.parsed /\ last.activity # None

(* C2 as stated: with fewer than two qualifying inputs the output carries   *)
(* an INPUT_TOO_FEW annotation, with more than one distinct unit among the  *)
(* inputs a UNIT_MISMATCH annotation, and no result QuantityValue is added. *)
C2_AsStated ==
  SumRan =>
    /\ Cardinality(SumInputs) < 2 => (Reports("INPUT_TOO_FEW") /\ NewQuantityValues = {})
    /\ Cardinality(UnitsCarried(last.input, SumInputs)) > 1 =>
         (Reports("UNIT_MISMATCH") /\ NewQuantityValues = {})

(* C2 amended: INPUT_TOO_FEW with fewer than two qualifying inputs;         *)
(* UNIT_MISMATCH with more than one distinct unit provided every input's    *)
(* value is numeric; with mismatched units and a missing or non-numeric     *)
(* value the annotation carries that value's code (MISSING_NUMERIC_VALUE or *)
(* NON_NUMERIC_VALUE) instead.  In all these cases no result is added.      *)
C2_ValueChecksFirst ==
  SumRan =>
    /\ Cardinality(SumInputs) < 2 => (Reports("INPUT_TOO_FEW") /\ NewQuantityValues = {})
    /\ Cardinality(UnitsCarried(last.input, SumInputs)) > 1 =>
         /\ NewQuantityValues = {}
         /\ IF AllNumeric(last.input, SumInputs)
            THEN Reports("UNIT_MISMATCH")
            ELSE /\ Reports("MISSING_NUMERIC_VALUE") \/ Reports("NON_NUMERIC_VALUE")
                 /\ ~Reports("UNIT_MISMATCH")

(* C2 witness: two numeric inputs of different units were refused *)
C2_Witness ==
  /\ SumRan
  /\ Cardinality(UnitsCarried(last.input, SumInputs)) > 1
  /\ AllNumeric(last.input, SumInputs)
  /\ Reports("UNIT_MISMATCH")
  /\ last.result = None

(* the unit of the result the latest invocation added *)
ResultUnits == Objects(OutGraph, Resolve(last.result), QUDT_unit)

(* C10 as stated: UNIT_MISMATCH is reported exactly when the inputs that    *)
(* carry a unit carry more than one distinct unit; on success the result    *)
(* has the single unit present, or unit:MilliM when no input carries one.   *)
C10_AsStated ==
  SumRan =>
    /\ Reports("UNIT_MISMATCH") <=> Cardinality(UnitsCarried(last.input, SumInputs)) > 1
    /\ last.code = "" =>
         ResultUnits = (IF UnitsCarried(last.input, SumInputs) = {}
                          THEN {UNIT_MilliM} ELSE UnitsCarried(last.input, SumInputs))

(* C10 amended: inputs without a unit are ignored by the unit check, and    *)
(* UNIT_MISMATCH is reported exactly when there are at least two inputs,    *)
(* every input's value is numeric and the units carried are more than one;  *)
(* on success the result has the single unit present, or unit:MilliM.       *)
C10_UnitRule ==
  SumRan =>
    /\ Reports("UNIT_MISMATCH") <=>
         /\ Cardinality(SumInputs) >= 2
         /\ AllNumeric(last.input, SumInputs)
         /\ Cardinality(UnitsCarried(last.input, SumInputs)) > 1
    /\ last.code = "" =>
         ResultUnits = (IF UnitsCarried(last.input, SumInputs) = {}
                          THEN {UNIT_MilliM} ELSE UnitsCarried(last.input, SumInputs))

(* C10 witness: an input without a unit was summed with one in metres, and  *)
(* the result is in metres                                                  *)
C10_Witness ==
  /\ SumRan /\ last.code = ""
  /\ \E q \in SumInputs : Objects(last.input, q, QUDT_unit) = {}
  /\ UnitsCarried(last.input, SumInputs) = {UNIT_M}
  /\ ResultUnits = {UNIT_M}

(* what the latest invocation added: result entities (generated by an       *)
(* activity and not annotations), annotations, and error codes              *)
ResultsWritten ==
  {x \in SubjectsOf(Written, PROV_wasGeneratedBy) : <<x, RDF_type, OA_Annotation>> \notin Written}
AnnotationsWritten == Subjects(Written, RDF_type, OA_Annotation)
CodesWritten == {t[3] : t \in {x \in Written : x[2] = EX_errorCode}}

(* the codes of the value check, given for each entity read the objects    *)
(* its value may be read as                                                 *)
ValueCodes(C) ==
  (IF \E c \in C : None \in c THEN {"MISSING_NUMERIC_VALUE"} ELSE {})
  \cup (IF \E c \in C : \E o \in c : o # None /\ ~IsNumeric(o)
          THEN {"NON_NUMERIC_VALUE"} ELSE {})

(* the outcome the checks of each script prescribe, taken in their order:   *)
(* the first check that fails on the parsed input names the code            *)
SumExpected ==
  LET g == last.input
      S == sum_inputs(g, last.activity)
      C == {ValueChoices(g, q, QUDT_numericValue) : q \in S}
  IN IF ~last.parsed THEN {"PARSE_ERROR"}
     ELSE IF Subjects(g, RDF_type, PROV_Activity) = {} THEN {"NO_ACTIVITY"}
     ELSE IF Cardinality(S) < 2 THEN {"INPUT_TOO_FEW"}
     ELSE IF ValueCodes(C) # {} THEN ValueCodes(C)
     ELSE IF Cardinality(UnitsCarried(g, S)) > 1 THEN {"UNIT_MISMATCH"}
     ELSE {""}

AvgExpected ==
  LET g == last.input
      M == Objects(g, last.inputs[1], PROV_hadMember)
      C == {avg_value_choices(g, m) : m \in M}
  IN IF ~last.parsed THEN {"PARSE_ERROR"}
     ELSE IF avg_inputs(g, activity_iri) = {} THEN {"INPUT_TOO_FEW"}
     ELSE IF M = {} THEN {"EMPTY_COLLECTION"}
     ELSE IF ValueCodes(C) # {} THEN ValueCodes(C)
     ELSE IF Cardinality(UnitsCarried(g, M)) > 1 THEN {"UNIT_MISMATCH"}
     ELSE {""}

(* the label of the plan variable of input inp, as the loader reads it *)
LabelOf(g, inp) ==
  LET var == CHOOSE v \in ValueChoices(g, inp, P_PLAN_correspondsToVariable) : TRUE
  IN var_label(var, CHOOSE l \in ValueChoices(g, var, RDFS_label) : TRUE)

IsMetadataInput(g, inp) ==
  label_contains(LabelOf(g, inp), "metadata") \/ label_contains(LabelOf(g, inp), "uri")
IsColumnInput(g, inp) == ~IsMetadataInput(g, inp) /\ label_contains(LabelOf(g, inp), "column")

CsvExpected ==
  LET g == last.input
      S == Subjects(g, BFO_is_input_of, activity_iri)
  IN IF ~last.parsed THEN {"PARSE_ERROR"}
     ELSE IF Cardinality(S) < 2 THEN {"INPUT_TOO_FEW"}
     ELSE IF ~(\E i \in S : IsMetadataInput(g, i)) \/ ~(\E i \in S : IsColumnInput(g, i))
       THEN {"MISSING_INPUT"}
     ELSE {"CSVW_LOAD_ERROR", ""}

Expected ==
  CASE script = "sum" -> SumExpected
    [] script = "average" -> AvgExpected
    [] script = "load_csvw_column" -> CsvExpected

(* C3: every invocation of every script, on a parsable document or not,     *)
(* returns a graph to which it added either exactly one result entity and   *)
(* no annotation, or exactly one error annotation with exactly one code and *)
(* no result; the code is that of the first check, in the script's order,   *)
(* that fails on the input                                                  *)
C3_OneResultOrOneError ==
  last.ran =>
       /\ doc.ok
       /\ last.code \in Expected
       /\ IF last.code = ""
          THEN /\ Cardinality(ResultsWritten) = 1
               /\ AnnotationsWritten = {}
               /\ CodesWritten = {}
          ELSE /\ ResultsWritten = {}
               /\ Cardinality(AnnotationsWritten) = 1
               /\ CodesWritten = {Str(last.code)}

(* C3 witness: the loader met a later check (the fetch) failing after the   *)
(* earlier ones passed, and wrote one annotation and no result              *)
C3_Witness ==
  /\ script = "load_csvw_column" /\ last.ran /\ last.code = "CSVW_LOAD_ERROR"
  /\ Cardinality(AnnotationsWritten) = 1 /\ ResultsWritten = {}

(* C4: after an invocation on a document that does not parse, the output    *)
(* holds exactly one annotation, with code PARSE_ERROR, without oa:hasTarget *)
(* and prov:wasGeneratedBy, and nothing but that annotation and its body:   *)
(* no statement of the document survives.                                   *)
C4_ParseErrorOnly ==
  (last.ran /\ ~last.parsed) =>
    /\ Cardinality(Subjects(OutGraph, RDF_type, OA_Annotation)) = 1
    /\ SubjectsOf(OutGraph, OA_hasTarget) = {}
    /\ SubjectsOf(OutGraph, PROV_wasGeneratedBy) = {}
    /\ \A a \in Subjects(OutGraph, RDF_type, OA_Annotation) :
         /\ Cardinality(Objects(OutGraph, a, OA_hasBody)) = 1
         /\ \A b \in Objects(OutGraph, a, OA_hasBody) :
              /\ Objects(OutGraph, b, EX_errorCode) = {Str("PARSE_ERROR")}
              /\ \A t \in OutGraph : t[1] \in {a, b}

(* C4 witness: the average script answered an unparsable document, of which *)
(* the parser had read a statement before failing                           *)
C4_Witness ==
  /\ script = "average" /\ last.ran /\ ~last.parsed
  /\ Reports("PARSE_ERROR")
  /\ prev.ran = FALSE

(* the value of member m as the collection states it: its                   *)
(* qudt:numericValue when it has one, its rdf:value otherwise               *)
MemberValue(g, m) ==
  IF Objects(g, m, QUDT_numericValue) # {} THEN TheValue(g, m)
  ELSE (CHOOSE o \in Objects(g, m, RDF_value) : TRUE)[3]

RECURSIVE MemberTotal(_, _)
MemberTotal(g, S) ==
  IF S = {} THEN 0
  ELSE LET m == CHOOSE x \in S : TRUE IN MemberValue(g, m) + MemberTotal(g, S \ {m})

(* the members of the collection the latest run of the average script averaged *)
AveragedMembers == Objects(last.input, last.inputs[1], PROV_hadMember)

AverageRan == script = "average" /\ last.ran /\ last.code = ""

(* result r states in graph w the mean, count, minimum and maximum of the   *)
(* values of the members M of graph g                                       *)
StatesStatistics(w, r, g, M) ==
  LET N == Cardinality(M)
      vals == {MemberValue(g, m) : m \in M}
  IN /\ Cardinality(Objects(w, r, QUDT_numericValue)) = 1
     /\ \A o \in Objects(w, r, QUDT_numericValue) :
          /\ IsNumeric(o) /\ o[4] > 0
          /\ o[3] * N = MemberTotal(g, M) * o[4]
          /\ Min(vals) * o[4] <= o[3] /\ o[3] <= Max(vals) * o[4]
     /\ Objects(w, r, EX_valueCount) = {Num(N, 1)}
     /\ Objects(w, r, EX_minValue) = {Num(Min(vals), 1)}
     /\ Objects(w, r, EX_maxValue) = {Num(Max(vals), 1)}

(* C5: a successful run of the average script over a collection of N >= 1   *)
(* members writes a result whose qudt:numericValue is the sum of the        *)
(* members' values divided by N, whose ex:valueCount is N, and whose        *)
(* ex:minValue and ex:maxValue are the least and greatest value, the mean   *)
(* lying between them; a member's value is its qudt:numericValue when       *)
(* present and its rdf:value otherwise. On the first run over a document    *)
(* the output graph states the same of the result.                          *)
C5_MeanOfMembers ==
  AverageRan =>
    /\ Cardinality(AveragedMembers) >= 1
    /\ \A r \in ResultsWritten : StatesStatistics(Written, r, last.input, AveragedMembers)
    /\ ~prev.ran =>
         \A r \in ResultsWritten : StatesStatistics(OutGraph, r, last.input, AveragedMembers)

(* C5 witness: two members were averaged, one read from qudt:numericValue   *)
(* although it also has an rdf:value, one read from rdf:value for want of a *)
(* qudt:numericValue, and the mean is not a whole number                    *)
C5_Witness ==
  /\ AverageRan /\ Cardinality(AveragedMembers) = 2
  /\ \E m \in AveragedMembers :
       Objects(last.input, m, QUDT_numericValue) # {} /\ Objects(last.input, m, RDF_value) # {}
  /\ \E m \in AveragedMembers : Objects(last.input, m, QUDT_numericValue) = {}
  /\ \E r \in ResultsWritten : \E o \in Objects(Written, r, QUDT_numericValue) : o[4] = 2

(* the results of the average script a graph holds *)
AverageResults(g) == SubjectsOf(g, EX_calculationMethod)

SingleValued == {QUDT_numericValue, EX_valueCount, EX_minValue, EX_maxValue}

(* the triples of the graph the latest run was given that have the IRI of   *)
(* its result as subject or object                                          *)
StaleResultTriples ==
  {t \in last.input : t[1] = Resolve(last.result) \/ t[3] = Resolve(last.result)}

(* the latest run of the average script and the one before it, whose output *)
(* it read, both succeeded                                                  *)
AverageRepeated ==
  /\ script = "average"
  /\ last.ran /\ last.code = ""
  /\ prev.ran /\ prev.code = ""

(* C6: when the average script is run again on its own output, with the     *)
(* same activity and nothing else changed, it mints the same result IRI and *)
(* returns a graph equal to the one it was given, which holds exactly one   *)
(* average result with exactly one qudt:numericValue, ex:valueCount,        *)
(* ex:minValue and ex:maxValue; every triple of the graph it was given that  *)
(* has the result IRI as subject or object is removed before the new        *)
(* triples are inserted.                                                    *)
C6_RepeatedRunIsIdempotent ==
  AverageRepeated =>
    /\ Resolve(last.result) = Resolve(prev.result)
    /\ StaleResultTriples \subseteq last.removed
    /\ OutGraph = last.input
    /\ Cardinality(AverageResults(OutGraph)) = 1
    /\ \A r \in AverageResults(OutGraph) :
         \A p \in SingleValued : Cardinality(Objects(OutGraph, r, p)) = 1

(* the latest run was one of the two workflow scripts on a parsable document *)
WorkflowRan == script \in {"average", "load_csvw_column"} /\ last.ran /\ last.parsed

ResultPrefix == IF script = "average" THEN "averageResult" ELSE "columnData"

(* C7: the execution hash of a run of the average script or of the column   *)
(* loader depends on the activity IRI and the set of input IRIs only: in    *)
(* whatever order the inputs are handed to create_execution_hash the hash   *)
(* is the one the run computed, and so is the result IRI minted from it;    *)
(* two consecutive runs over the same set of inputs, enumerated in whatever *)
(* order, compute the same hash and, when both succeed, the same result IRI *)
C7_HashIgnoresOrder ==
  WorkflowRan =>
    /\ \A o \in Orders(Range(last.inputs)) :
         /\ create_execution_hash(activity_iri, o) = last.hash
         /\ last.code = "" =>
              create_deterministic_iri(ResultPrefix, create_execution_hash(activity_iri, o))
                = last.result
    /\ (prev.ran /\ prev.parsed /\ Range(prev.inputs) = Range(last.inputs)) =>
         /\ prev.hash = last.hash
         /\ (prev.code = "" /\ last.code = "") => prev.result = last.result

(* C7 witness: the loader succeeded twice on two inputs that the graph      *)
(* enumerated in one order the first time and in the other the second       *)
C7_Witness ==
  /\ WorkflowRan /\ script = "load_csvw_column" /\ last.code = ""
  /\ prev.ran /\ prev.code = ""
  /\ Len(last.inputs) = 2
  /\ Range(prev.inputs) = Range(last.inputs)
  /\ prev.inputs # last.inputs
  /\ last.result # None

(* the result entities the latest invocation added: the qudt:QuantityValue  *)
(* of the sum and of the average, the prov:Collection of the loader         *)
AddedResults ==
  Subjects(Written, RDF_type,
           IF script = "load_csvw_column" THEN PROV_Collection ELSE QUDT_QuantityValue)

(* the activity an invocation works for: the one the sum script selected,   *)
(* the one the workflow scripts were called with                            *)
Origin == IF script = "sum" THEN last.activity ELSE activity_iri

(* the inputs the latest invocation consumed *)
Consumed ==
  CASE script = "sum" -> sum_inputs(last.input, last.activity)
    [] script = "average" -> {last.inputs[1]}
    [] script = "load_csvw_column" -> Subjects(last.input, BFO_is_input_of, activity_iri)

ResultsLinked ==
  \A r \in AddedResults :
    /\ <<r, PROV_wasGeneratedBy, Origin>> \in Written
    /\ \A i \in Consumed : <<r, PROV_wasDerivedFrom, i>> \in Written

AnnotationLinked(a) ==
  /\ <<a, OA_hasTarget, Origin>> \in Written
  /\ <<a, PROV_wasGeneratedBy, Origin>> \in Written

(* C8 as stated: every result and every annotation an invocation adds is    *)
(* linked to the originating activity, and every result is derived from     *)
(* every input consumed                                                     *)
C8_AsStated ==
  last.ran => ResultsLinked /\ \A a \in AnnotationsWritten : AnnotationLinked(a)

(* C8: every result an invocation adds is prov:wasGeneratedBy the activity  *)
(* and prov:wasDerivedFrom every input consumed; every annotation it adds   *)
(* has the activity as oa:hasTarget and prov:wasGeneratedBy, except the     *)
(* annotations of PARSE_ERROR and NO_ACTIVITY, which have neither           *)
C8_LinkedOnceActivityEstablished ==
  last.ran =>
    /\ ResultsLinked
    /\ \A a \in AnnotationsWritten :
         IF last.code \in {"PARSE_ERROR", "NO_ACTIVITY"}
         THEN Objects(Written, a, OA_hasTarget) = {} /\ Objects(Written, a, PROV_wasGeneratedBy) = {}
         ELSE AnnotationLinked(a)

(* C8 witness: the loader added a collection derived from its two inputs *)
C8_Witness ==
  /\ script = "load_csvw_column" /\ last.ran /\ last.code = ""
  /\ Cardinality(Consumed) = 2
  /\ \E r \in AddedResults : Cardinality(Objects(Written, r, PROV_wasDerivedFrom)) = 2

(* annotation a has, in graph w, the shape of an error report with code c   *)
(* and target t (None: no target)                                           *)
ErrorShape(w, a, c, t) ==
  /\ <<a, RDF_type, OA_Annotation>> \in w
  /\ Objects(w, a, OA_motivatedBy) = {EX_errorReporting}
  /\ Cardinality(Objects(w, a, OA_hasBody)) = 1
  /\ \A b \in Objects(w, a, OA_hasBody) :
       /\ b[1] = "bnode"
       /\ Objects(w, b, RDF_type) = {OA_TextualBody}
       /\ Cardinality(Objects(w, b, RDF_value)) = 1
       /\ \A m \in Objects(w, b, RDF_value) : m[1] = "str"
       /\ Objects(w, b, EX_errorCode) = {Str(c)}
  /\ Objects(w, a, OA_hasTarget) = (IF t # None THEN {t} ELSE {})

(* C9: the annotation an invocation of any of the three scripts writes is   *)
(* one node typed oa:Annotation, oa:motivatedBy ex:errorReporting, with     *)
(* exactly one oa:hasBody, a blank node typed oa:TextualBody with one       *)
(* rdf:value message and the one ex:errorCode given; it has the activity as *)
(* oa:hasTarget when the run has established the activity and no            *)
(* oa:hasTarget otherwise. On the first run over a document the output      *)
(* graph shows the annotation in that shape.                                *)
C9_AnnotationShape ==
  (last.ran /\ last.code # "") =>
    /\ AnnotationsWritten = {Resolve(last.ann)}
    /\ ErrorShape(Written, Resolve(last.ann), last.code, last.activity)
    /\ ~prev.ran => ErrorShape(OutGraph, Resolve(last.ann), last.code, last.activity)

(* C9 witness: the average script reported mismatched units against its activity *)
C9_Witness ==
  /\ script = "average" /\ last.ran /\ last.code = "UNIT_MISMATCH"
  /\ Objects(Written, Resolve(last.ann), OA_hasTarget) = {activity_iri}

(* the checks of the average script on the graph it parsed, each as the     *)
(* condition under which it fails                                           *)
AvgParsed == script = "average" /\ last.ran /\ last.parsed
AvgNoInput ==
  ~\E e \in Objects(last.input, activity_iri, PROV_used) :
      /\ <<e, RDF_type, PROV_Collection>> \in last.input
      /\ e \in SubjectsOf(last.input, P_PLAN_correspondsToVariable)
AvgNoMember == ~AvgNoInput /\ AveragedMembers = {}
AvgValueMissing ==
  /\ ~AvgNoInput
  /\ \E m \in AveragedMembers :
       Objects(last.input, m, QUDT_numericValue) = {} /\ Objects(last.input, m, RDF_value) = {}
AvgValueNotNumeric ==
  /\ ~AvgNoInput
  /\ \E m \in AveragedMembers :
       \/ \E o \in Objects(last.input, m, QUDT_numericValue) : ~IsNumeric(o)
       \/ /\ Objects(last.input, m, QUDT_numericValue) = {}
          /\ \E o \in Objects(last.input, m, RDF_value) : ~IsNumeric(o)
AvgUnitsDiffer == ~AvgNoInput /\ Cardinality(UnitsCarried(last.input, AveragedMembers)) > 1

NoAverageWritten == AverageResults(Written) = {} /\ ResultsWritten = {}

(* C11 as stated: each failing condition has its code reported, whatever    *)
(* else is wrong with the graph                                             *)
C11_AsStated ==
  AvgParsed =>
    /\ AvgNoInput => Reports("INPUT_TOO_FEW")
    /\ AvgNoMember => Reports("EMPTY_COLLECTION")
    /\ AvgValueMissing => Reports("MISSING_NUMERIC_VALUE")
    /\ AvgValueNotNumeric => Reports("NON_NUMERIC_VALUE")
    /\ AvgUnitsDiffer => Reports("UNIT_MISMATCH")
    /\ (AvgNoInput \/ AvgNoMember \/ AvgValueMissing \/ AvgValueNotNumeric \/ AvgUnitsDiffer)
         => NoAverageWritten

(* C11: on a parsable graph the average script reports INPUT_TOO_FEW when   *)
(* the activity uses no prov:Collection bound to a plan variable;           *)
(* EMPTY_COLLECTION when the chosen collection has no member; when a member *)
(* has no value or a value that is not a number, MISSING_NUMERIC_VALUE or   *)
(* NON_NUMERIC_VALUE, and one that applies to some member; UNIT_MISMATCH    *)
(* when the members carry more than one unit and every member has a numeric *)
(* value. In each of these cases it writes no average result.               *)
C11_ChecksInOrder ==
  AvgParsed =>
    /\ AvgNoInput => Reports("INPUT_TOO_FEW")
    /\ AvgNoMember => Reports("EMPTY_COLLECTION")
    /\ (AvgValueMissing /\ ~AvgValueNotNumeric) => Reports("MISSING_NUMERIC_VALUE")
    /\ (AvgValueNotNumeric /\ ~AvgValueMissing) => Reports("NON_NUMERIC_VALUE")
    /\ (AvgValueMissing /\ AvgValueNotNumeric) =>
         Reports("MISSING_NUMERIC_VALUE") \/ Reports("NON_NUMERIC_VALUE")
    /\ (AvgUnitsDiffer /\ ~AvgValueMissing /\ ~AvgValueNotNumeric) => Reports("UNIT_MISMATCH")
    /\ (AvgNoInput \/ AvgNoMember \/ AvgValueMissing \/ AvgValueNotNumeric \/ AvgUnitsDiffer)
         => NoAverageWritten

(* C11 witness: two members with numeric values, one of them read from      *)
(* rdf:value, carry different units and the mismatch is reported            *)
C11_Witness ==
  /\ AvgParsed /\ AvgUnitsDiffer /\ ~AvgValueMissing /\ ~AvgValueNotNumeric
  /\ \E m \in AveragedMembers : Objects(last.input, m, QUDT_numericValue) = {}
  /\ Reports("UNIT_MISMATCH") /\ NoAverageWritten

(* the latest run of the column loader succeeded *)
LoadRan == script = "load_csvw_column" /\ last.ran /\ last.code = ""

(* member m states in graph w the value v of a column with unit un: a       *)
(* qudt:QuantityValue with value and unit when v is a number and the column *)
(* has a unit, a plain prov:Entity with rdf:value v otherwise               *)
StatesValue(w, m, v, un) ==
  IF IsNumeric(v) /\ un # None
  THEN /\ <<m, RDF_type, QUDT_QuantityValue>> \in w
       /\ Objects(w, m, QUDT_numericValue) = {v}
       /\ Objects(w, m, QUDT_unit) = {un}
       /\ Objects(w, m, RDF_value) = {}
  ELSE /\ Objects(w, m, RDF_type) = {PROV_Entity}
       /\ Objects(w, m, RDF_value) = {v}
       /\ Objects(w, m, QUDT_numericValue) = {}
       /\ Objects(w, m, QUDT_unit) = {}

(* graph w holds one collection with one member per loaded value *)
StatesColumn(w) ==
  LET N == Len(last.values)
  IN /\ Cardinality(Subjects(w, RDF_type, PROV_Collection)) = 1
     /\ \A c \in Subjects(w, RDF_type, PROV_Collection) :
          /\ c = Resolve(last.result)
          /\ Cardinality(Objects(w, c, PROV_hadMember)) = N
          /\ Objects(w, c, EX_valueCount) = {Num(N, 1)}
          /\ \A i \in 1..N :
               /\ Resolve(value_iri(i - 1, last.hash)) \in Objects(w, c, PROV_hadMember)
               /\ StatesValue(w, Resolve(value_iri(i - 1, last.hash)), last.values[i], last.unit)

(* C12: a successful run of the column loader writes one columnData entity  *)
(* typed prov:Collection with one prov:hadMember per loaded value and       *)
(* ex:valueCount equal to their number; a member is a qudt:QuantityValue    *)
(* with numericValue and unit exactly when its value is a number and the    *)
(* column has a mapped unit, and a prov:Entity with a plain rdf:value       *)
(* otherwise. On the first run over a document the output graph states the  *)
(* same.                                                                    *)
C12_ColumnLoaded ==
  LoadRan => StatesColumn(Written) /\ (~prev.ran => StatesColumn(OutGraph))

(* C12 witness: a column with a unit was loaded with one numeric and one    *)
(* textual value                                                            *)
C12_Witness ==
  /\ LoadRan /\ Len(last.values) = 2 /\ last.unit # None
  /\ \E i \in 1..2 : IsNumeric(last.values[i])
  /\ \E i \in 1..2 : ~IsNumeric(last.values[i])
  /\ Cardinality(Subjects(Written, RDF_type, QUDT_QuantityValue)) = 1

(* the column loader got past its input count check *)
LoadIdentifying ==
  /\ script = "load_csvw_column" /\ last.ran /\ last.parsed
  /\ Cardinality(Subjects(last.input, BFO_is_input_of, activity_iri)) >= 2

(* some input identified as the metadata URI, as the column name, has an rdf:value *)
SuppliesMetadata ==
  \E i \in Subjects(last.input, BFO_is_input_of, activity_iri) :
    IsMetadataInput(last.input, i) /\ Objects(last.input, i, RDF_value) # {}
SuppliesColumn ==
  \E i \in Subjects(last.input, BFO_is_input_of, activity_iri) :
    IsColumnInput(last.input, i) /\ Objects(last.input, i, RDF_value) # {}

(* the run went on to load_column_from_csvw *)
Fetched == last.code \in {"CSVW_LOAD_ERROR", ""}

(* C13: the column loader takes as metadata URI an input whose variable     *)
(* label contains "metadata" or "uri", and as column name one whose label   *)
(* contains "column" and neither of those; whenever no input supplies a     *)
(* metadata URI value or no input supplies a column name value, also when   *)
(* the matching input has no rdf:value, it reports MISSING_INPUT and does   *)
(* not fetch.                                                               *)
C13_MissingInputReported ==
  (LoadIdentifying /\ (~SuppliesMetadata \/ ~SuppliesColumn)) =>
    Reports("MISSING_INPUT") /\ ~Fetched

(* the value{idx} entities of the latest run's execution hash a graph holds *)
ValueEntities(g) ==
  {Resolve(value_iri(i, last.hash)) : i \in 0..(MaxRows - 1)} \cap {t[1] : t \in g}

(* the latest run of the loader and the one before it both succeeded *)
LoadRepeated == LoadRan /\ prev.ran /\ prev.code = ""

(* C14: after the column loader ran again on its own output with the same   *)
(* activity and inputs, every value{idx} entity of the graph is a member of *)
(* the columnData collection and carries only triples the second run wrote, *)
(* also when that run loaded fewer rows or rows of another kind.            *)
C14_NoStaleValues ==
  LoadRepeated =>
    \A v \in ValueEntities(OutGraph) :
      /\ v \in Objects(OutGraph, Resolve(last.result), PROV_hadMember)
      /\ {t \in OutGraph : t[1] = v} \subseteq Written

(* the state right after a call of the average script on a parsable graph *)
AverageReturned == script = "average" /\ last.ran /\ last.parsed /\ doc = serialize(last.g)

(* C15: over calls of the average script with the same activity on a graph  *)
(* the caller edits in between, the graph returned by a call never holds    *)
(* both the averageResult and the errorAnn of the call's execution hash,    *)
(* and every error annotation in it has exactly one oa:hasBody.             *)
C15_OnlyLatestOutcome ==
  AverageReturned =>
    /\ ~(/\ Resolve(create_deterministic_iri("averageResult", last.hash)) \in AverageResults(OutGraph)
         /\ Resolve(create_deterministic_iri("errorAnn", last.hash))
              \in Subjects(OutGraph, RDF_type, OA_Annotation))
    /\ \A a \in Subjects(OutGraph, RDF_type, OA_Annotation) :
         Cardinality(Objects(OutGraph, a, OA_hasBody)) = 1

(* triple t has the result IRI of the latest invocation as subject or object *)
AboutOwnResult(t) ==
  /\ script # "sum" /\ last.result # None
  /\ (t[1] = Resolve(last.result) \/ t[3] = Resolve(last.result))

(* C16: after an invocation on a parsable graph every triple of that graph  *)
(* is in the output, except, for the average script and the column loader,  *)
(* triples with the invocation's own result IRI as subject or object; an    *)
(* invocation that ends in an error removes nothing and adds only triples   *)
(* of its annotation and the annotation's body.                             *)
C16_Frame ==
  (last.ran /\ last.parsed) =>
    /\ \A t \in last.input : t \in OutGraph \/ AboutOwnResult(t)
    /\ \A t \in last.removed : AboutOwnResult(t)
    /\ last.code # "" =>
         /\ last.removed = {}
         /\ OutGraph = last.input \cup Written
         /\ \A t \in Written :
              t[1] = Resolve(last.ann) \/ t[1] \in Objects(Written, Resolve(last.ann), OA_hasBody)

(* C16 witness: the average script succeeded on a graph that already held   *)
(* triples of an earlier result, and the output holds the whole input       *)
C16_Witness ==
  /\ AverageRepeated /\ StaleResultTriples # {}
  /\ last.input \subseteq OutGraph

====
